---- MODULE Spec2Model ----
(***************************************************************************)
(* Model of the konus_mate memory lifecycle engine: the conversation       *)
(* memory store (cleaner insert, access bump, soft delete, daily GC, read  *)
(* paths), the chat orchestrator, the emotion engine and the default       *)
(* flag of SystemInstruction / Prompt records.                             *)
(*                                                                         *)
(* Units.  Timestamps are integer seconds.  emotional_weight and           *)
(* semantic_importance are stored in tenths (0.5 is 5); valence, arousal   *)
(* and the judge deltas are stored in tenths (0.3 is 3).                   *)
(* NULL of a nullable integer column is NullInt, NULL of a nullable        *)
(* string column is the string "null".  lastOp names the operation that    *)
(* made the last step, with the inputs and the outcome the properties      *)
(* refer to.                                                               *)
(***************************************************************************)
EXTENDS Integers, Sequences, FiniteSets, TLC

VARIABLES rows, nextId, now, ticks, tasks, chat, lastOp, emo, instructions, prompts, nextRec, sess, services, constructions, app, scheduler,
          emoSess, conv, gcRun

vars == <<rows, nextId, now, ticks, tasks, chat, lastOp, emo, instructions, prompts, nextRec, sess, services, constructions, app, scheduler,
         emoSess, conv, gcRun>>

(***************************************************************************)
(* Bounds of the model                                                     *)
(***************************************************************************)
MaxRows == 2
MaxSeed == 2
MaxTicks == 1
MaxAccess == 2
MaxTasks == 1
MaxMessages == 13
MaxRecs == 3
MaxSessions == 2
MaxServices == 4
MaxConstructions == 4

(***************************************************************************)
(* Program constants                                                       *)
(***************************************************************************)
CONVERSATION_BATCH_SIZE == 6
seconds_per_day == 86400
RecentLimit == 3
RelevantLimit == 5
CandidatesLimit == 50
RollingMonths == 3

NullInt == -1
Epoch0 == 1000 * seconds_per_day

Users == {1, 2}
SystemInstructionIds == {1, 2}
Queries == {"tea", "park"}
TickSteps == {8 * seconds_per_day, 91 * seconds_per_day}

(***************************************************************************)
(* Generic helpers                                                         *)
(***************************************************************************)
Min(a, b) == IF a < b THEN a ELSE b

\* Python's `x or d` on a nullable number: None and 0 are both falsy.
OrDefault(x, d) == IF x = NullInt \/ x = 0 THEN d ELSE x

Take(s, n) == SubSeq(s, 1, Min(n, Len(s)))

SeqToSet(s) == {s[i] : i \in 1..Len(s)}

PermSeqs(S) == {p \in [1..Cardinality(S) -> S] : \A x \in S : \E i \in 1..Cardinality(S) : p[i] = x}

\* Every order a SQL ORDER BY may return: rows that the ordering separates
\* are in order, rows that tie may come in any order.
\* `before` is the set of pairs <<a, b>> the ordering puts a ahead of b.
OrderBy(S, before) ==
    {p \in PermSeqs(S) : \A i, j \in 1..Cardinality(S) : i < j => <<p[j], p[i]>> \notin before}

\* list.sort(key=..., reverse=True): descending by score, stable on ties;
\* `greater` is the set of pairs <<a, b>> with score(a) > score(b).
SortDescStable(s, greater) ==
    LET n == Len(s)
        idx == CHOOSE p \in [1..n -> 1..n] :
                  /\ \A k \in 1..n : \E i \in 1..n : p[i] = k
                  /\ \A i, j \in 1..n : i < j =>
                        /\ <<s[p[j]], s[p[i]]>> \notin greater
                        /\ (<<s[p[i]], s[p[j]]>> \notin greater => p[i] < p[j])
    IN [i \in 1..n |-> s[idx[i]]]

Ids == DOMAIN rows

(***************************************************************************)
(* ConversationMemory rows                                                 *)
(***************************************************************************)
\* A row as the ORM inserts it for the cleaner: the columns the constructor
\* call names, the column defaults for access_count, is_deleted and
\* created_at, NULL for every other column.
NewMemory(user_id, system_instruction_id, summary, importance_score, conversation_round, t) ==
    [user_id |-> user_id,
     system_instruction_id |-> system_instruction_id,
     summary |-> summary,
     conversation_round |-> conversation_round,
     importance_score |-> importance_score,
     original_content |-> "null",
     memory_category |-> "null",
     created_at_timestamp |-> NullInt,
     last_accessed |-> NullInt,
     access_count |-> 1,
     emotional_weight |-> NullInt,
     semantic_importance |-> NullInt,
     is_deleted |-> FALSE,
     deleted_at |-> NullInt,
     created_at |-> t]

\* Rows already in the table when the model starts, with the lifecycle
\* columns filled in the way the column comments document them
\* (last_accessed starts at created_at_timestamp, access_count at 1,
\* semantic_importance is importance_score / 10).
SeedCatalogue ==
    { [user_id |-> 1, memory_category |-> "event",      importance_score |-> 3, emotional_weight |-> 3, access_count |-> 1],
      [user_id |-> 1, memory_category |-> "fact",       importance_score |-> 3, emotional_weight |-> 3, access_count |-> 1],
      [user_id |-> 2, memory_category |-> "desire",     importance_score |-> 3, emotional_weight |-> 8, access_count |-> 1],
      [user_id |-> 2, memory_category |-> "desire",     importance_score |-> 3, emotional_weight |-> 8, access_count |-> 3],
      [user_id |-> 1, memory_category |-> "event",      importance_score |-> 8, emotional_weight |-> 3, access_count |-> 1],
      [user_id |-> 2, memory_category |-> "preference", importance_score |-> 3, emotional_weight |-> 3, access_count |-> 1] }

SeedMemory(k, t) ==
    [NewMemory(k.user_id, 1, "tea", k.importance_score, CONVERSATION_BATCH_SIZE, t) EXCEPT
        !.memory_category = k.memory_category,
        !.created_at_timestamp = t,
        !.last_accessed = t,
        !.access_count = k.access_count,
        !.emotional_weight = k.emotional_weight,
        !.semantic_importance = k.importance_score]

SeedStores ==
    UNION { { [i \in 1..n |-> SeedMemory(ks[i], Epoch0)] :
                ks \in {q \in [1..n -> SeedCatalogue] : \A i, j \in 1..n : i # j => q[i] # q[j]} } :
            n \in 0..Min(MaxSeed, MaxRows) }

\* Tables holding two rows of one kind that differ in age only: one
\* created an hour before the model starts, the other 72 hours before.
RankAges == {<<3600, 72 * 3600>>, <<72 * 3600, 3600>>}

RankStores ==
    { [i \in 1..2 |-> SeedMemory(k, Epoch0 - ages[i])] : k \in SeedCatalogue, ages \in RankAges }

\* A delete that flips the flag.
SoftDeletedToggle(m, t) == [m EXCEPT !.is_deleted = ~@, !.deleted_at = t]

\* memory.is_deleted = True; memory.deleted_at = now
SoftDeleted(m, t) == [m EXCEPT !.is_deleted = TRUE, !.deleted_at = t]

SoftDeleteAll(D, t) == [id \in Ids |-> IF id \in D THEN SoftDeleted(rows[id], t) ELSE rows[id]]

HardDeleteAll(D) == [id \in Ids \ D |-> rows[id]]

(***************************************************************************)
(* Read paths                                                              *)
(***************************************************************************)
\* The scope filter without its is_deleted test.
InScopeWithDeleted(id, user_id, system_instruction_id) ==
    /\ rows[id].user_id = user_id
    /\ rows[id].system_instruction_id = system_instruction_id

InScope(id, user_id, system_instruction_id) ==
    /\ rows[id].user_id = user_id
    /\ rows[id].system_instruction_id = system_instruction_id
    /\ rows[id].is_deleted = FALSE

ByImportanceDesc(a, b) == rows[a].importance_score > rows[b].importance_score

ByCreatedDesc(a, b) == rows[a].created_at > rows[b].created_at

ByImportanceThenCreatedDesc(a, b) ==
    \/ rows[a].importance_score > rows[b].importance_score
    \/ /\ rows[a].importance_score = rows[b].importance_score
       /\ rows[a].created_at > rows[b].created_at

\* Lexical fallback of _calculate_similarity, in thousandths.  The model's
\* texts are single words and the embedding model is the "fallback" one
\* (sentence_transformers not installed), so _encode_text returns None.
Words(text) == IF text = "" THEN {} ELSE {text}

CalculateSimilarity(text1, text2) ==
    LET words1 == Words(text1)
        words2 == Words(text2)
    IN IF words1 = {} \/ words2 = {} THEN 0
       ELSE (1000 * Cardinality(words1 \cap words2))
                \div Min(Cardinality(words1), Cardinality(words2))

\* _calculate_entity_match_score: the rows of the model carry no entities
\* (the cleaning replies have no "entities" key), which is the early return.
CalculateEntityMatchScore(id) == 0

\* combined_score in ten-thousandths: 0.5*vector + 0.3*entity + 0.2*importance/10
CombinedScore(id, query) ==
    5 * CalculateSimilarity(query, rows[id].summary)
    + 3 * CalculateEntityMatchScore(id)
    + 2 * (rows[id].importance_score * 100)

\* The candidate queries of get_relevant_memories and rerank_memories:
\* every order the database may return them in.
CandidateOrders(user_id, system_instruction_id) ==
    { Take(o, CandidatesLimit) :
        o \in OrderBy({id \in Ids : InScope(id, user_id, system_instruction_id)},
                     {ab \in Ids \X Ids : ByImportanceDesc(ab[1], ab[2])}) }

GetRelevantMemories(candidates, query, limit) ==
    LET greater == {ab \in Ids \X Ids : CombinedScore(ab[1], query) > CombinedScore(ab[2], query)}
    IN Take(SortDescStable(candidates, greater), limit)

RecentOrders(user_id, system_instruction_id, limit) ==
    { Take(o, limit) :
        o \in OrderBy({id \in Ids : InScope(id, user_id, system_instruction_id)},
                     {ab \in Ids \X Ids : ByCreatedDesc(ab[1], ab[2])}) }

\* GET /memory/list; a missing (or zero) system_instruction_id does not filter.
ListOrders(user_id, system_instruction_id) ==
    OrderBy({id \in Ids : /\ rows[id].user_id = user_id
                          /\ rows[id].is_deleted = FALSE
                          /\ (system_instruction_id # NullInt
                                => rows[id].system_instruction_id = system_instruction_id)},
            {ab \in Ids \X Ids : ByImportanceThenCreatedDesc(ab[1], ab[2])})

\* log10(n) in hundredths, for the access counts the model reaches.
Log10x100(n) == CASE n = 1 -> 0 [] n = 2 -> 30 [] n = 3 -> 48 [] n = 4 -> 60
                  [] n = 5 -> 70 [] OTHER -> 78

\* calculate_final_score = similarity * decay * boost * emotion, kept as the
\* pair (undecayed product, decay denominator): decay is 24 / (24 + hours)
\* for event and desire rows and 1 for fact and preference rows.
FinalScoreBase(id) ==
    LET m == rows[id]
        access_count == OrDefault(m.access_count, 1)
        emotional_weight == OrDefault(m.emotional_weight, 5)
        vector_similarity == OrDefault(m.semantic_importance, 5)
        boost_factor == IF access_count > 0 THEN 100 + Log10x100(access_count) ELSE 100
        emotion_factor == 20 + emotional_weight
    IN vector_similarity * boost_factor * emotion_factor

FinalScoreDecayDen(id, current_time) ==
    LET m == rows[id]
        created_at == OrDefault(m.created_at_timestamp, current_time)
        memory_category == IF m.memory_category = "null" THEN "fact" ELSE m.memory_category
        time_diff_hours == (current_time - created_at) \div 3600
    IN IF memory_category \in {"fact", "preference"} THEN 24 ELSE 24 + time_diff_hours

RerankMemories(candidates, current_time, limit) ==
    LET greater == {ab \in Ids \X Ids :
                      FinalScoreBase(ab[1]) * FinalScoreDecayDen(ab[2], current_time)
                        > FinalScoreBase(ab[2]) * FinalScoreDecayDen(ab[1], current_time)}
    IN Take(SortDescStable(candidates, greater), limit)

(***************************************************************************)
(* The cleaner                                                             *)
(***************************************************************************)
\* What the cleaning LLM call can come back with.
\* The summary and importance_score of a JSON reply; a reply without
\* importance_score gets the default 5.
ReplyContents == { [summary |-> "park", importance_score |-> NullInt] }

LLMReplies ==
    { [kind |-> k, should_remember |-> "missing", has_summary |-> FALSE,
       summary |-> "tea", importance_score |-> NullInt] : k \in {"error", "unparseable", "nondict"} }
    \cup
    { [kind |-> "json", should_remember |-> sr, has_summary |-> hs,
       summary |-> c.summary, importance_score |-> c.importance_score] :
         sr \in {"true", "false", "missing"}, hs \in BOOLEAN, c \in ReplyContents }

\* _ai_clean_conversation: None when the call raises or json.loads fails,
\* the parsed value otherwise.
AiCleanConversation(reply) == IF reply.kind \in {"error", "unparseable"} THEN "None" ELSE "parsed"

\* The cleaner without its should_remember test.
CleanerPersistsUnfiltered(reply) ==
    /\ reply.kind = "json"
    /\ reply.has_summary

\* clean_and_store_conversation up to the commit: does it reach db.add ?
\* A parsed value that is no dict makes .get raise, a dict without
\* "summary" makes the subscript raise; both end in the except branch.
CleanerPersists(reply) ==
    /\ AiCleanConversation(reply) = "parsed"
    /\ reply.kind = "json"
    /\ reply.should_remember = "true"
    /\ reply.has_summary

CleanedMemory(user_id, system_instruction_id, reply, conversation_round, t) ==
    NewMemory(user_id, system_instruction_id, reply.summary,
              IF reply.importance_score = NullInt THEN 5 ELSE reply.importance_score,
              conversation_round, t)

(***************************************************************************)
(* The daily garbage collection                                            *)
(***************************************************************************)
\* The candidate query without its memory_category filter.
GCCandidatesAllCategories == {id \in Ids : rows[id].is_deleted = FALSE}

GCCandidates == {id \in Ids : /\ rows[id].memory_category \in {"event", "desire"}
                              /\ rows[id].is_deleted = FALSE}

SecondsSinceAccess(id, current_time) ==
    LET created_at == OrDefault(rows[id].created_at_timestamp, current_time)
        last_accessed == OrDefault(rows[id].last_accessed, created_at)
    IN current_time - last_accessed

\* days_since_access > n, with days_since_access = seconds / 86400
DaysSinceAccessOver(id, current_time, n) ==
    SecondsSinceAccess(id, current_time) > n * seconds_per_day

\* The two rules without the importance test.
ShouldSoftDeleteAnyImportance(id, current_time) ==
    \/ /\ DaysSinceAccessOver(id, current_time, 7)
       /\ OrDefault(rows[id].emotional_weight, 5) < 5
    \/ /\ DaysSinceAccessOver(id, current_time, 30)
       /\ OrDefault(rows[id].access_count, 1) < 3

\* cleanup_service.py: rule 1 and rule 2, both with the importance test
ShouldSoftDelete(id, current_time) ==
    LET mem_category == IF rows[id].memory_category = "null" THEN "event" ELSE rows[id].memory_category
        access_count == OrDefault(rows[id].access_count, 1)
        emotional_weight == OrDefault(rows[id].emotional_weight, 5)
        importance_score == OrDefault(rows[id].importance_score, 5)
    IN \/ /\ mem_category \in {"event", "desire"}
          /\ DaysSinceAccessOver(id, current_time, 7)
          /\ emotional_weight < 5
          /\ importance_score < 5
       \/ /\ DaysSinceAccessOver(id, current_time, 30)
          /\ access_count < 3
          /\ importance_score < 5

\* scripts/daily_memory_cleanup.py: the same two rules without the
\* importance test
ScriptShouldDelete(id, current_time) ==
    LET mem_category == rows[id].memory_category
        access_count == OrDefault(rows[id].access_count, 1)
        emotional_weight == OrDefault(rows[id].emotional_weight, 5)
    IN \/ /\ mem_category \in {"event", "desire"}
          /\ DaysSinceAccessOver(id, current_time, 7)
          /\ emotional_weight < 5
       \/ /\ DaysSinceAccessOver(id, current_time, 30)
          /\ access_count < 3

\* The cut-off query without its user_id test.
OlderThanAnyUser(user_id, system_instruction_id, months, t) ==
    {id \in Ids : /\ rows[id].is_deleted = FALSE
                  /\ rows[id].created_at < t - (30 * months) * seconds_per_day
                  /\ (system_instruction_id # NullInt
                        => rows[id].system_instruction_id = system_instruction_id)}

\* The rows older than the cut-off that clear-old and the rolling cleanup
\* soft-delete; a missing (or zero) system_instruction_id does not filter.
OlderThan(user_id, system_instruction_id, months, t) ==
    {id \in Ids : /\ rows[id].user_id = user_id
                  /\ rows[id].is_deleted = FALSE
                  /\ rows[id].created_at < t - (30 * months) * seconds_per_day
                  /\ (system_instruction_id # NullInt
                        => rows[id].system_instruction_id = system_instruction_id)}

(***************************************************************************)
(* SystemInstruction records and the id a chat turn resolves               *)
(***************************************************************************)
\* The table scripts/init_db.py leaves behind (its first two records).
SeededInstructions ==
    (1 :> [is_active |-> TRUE, is_default |-> TRUE, sort_order |-> 1])
    @@ (2 :> [is_active |-> TRUE, is_default |-> FALSE, sort_order |-> 2])

\* select(SystemInstruction).where(is_default == True)
\*   .order_by(sort_order).limit(1): the ids the query may return.
DefaultCandidates ==
    {id \in DOMAIN instructions :
        /\ instructions[id].is_default
        /\ \A o \in DOMAIN instructions :
              instructions[o].is_default => instructions[id].sort_order <= instructions[o].sort_order}

\* chat(), step 2: the ids system_instruction_id may resolve to; a request
\* without id (None, or 0) takes the default, or 1 when there is none.
ResolvedIds(request_id) ==
    IF request_id # NullInt /\ request_id # 0 THEN {request_id}
    ELSE IF DefaultCandidates = {} THEN {1} ELSE DefaultCandidates

(***************************************************************************)
(* Operations on the memory store                                          *)
(***************************************************************************)
\* The variables of the other subsystems, which the operations below leave
\* alone.
EmbedFrame == UNCHANGED <<services, constructions>>

SchedFrame == UNCHANGED <<app, scheduler>>

\* The transactions in flight of the emotion engine and of the daily job.
TxFrame == UNCHANGED <<emoSess, gcRun>>

AuxFrame == EmbedFrame /\ SchedFrame /\ TxFrame

\* The tables, the clock and the chat turn in flight.
StoreFrame ==
    UNCHANGED <<rows, nextId, now, ticks, tasks, chat, emo, instructions, prompts, nextRec, sess,
                emoSess, conv, gcRun>>

MemFrame == UNCHANGED <<chat, emo, instructions, prompts, nextRec, sess, conv>> /\ AuxFrame

Tick ==
    /\ ticks < MaxTicks
    /\ \E step \in TickSteps : now' = now + step
    /\ ticks' = ticks + 1
    /\ lastOp' = [op |-> "tick"]
    /\ UNCHANGED <<rows, nextId, tasks>>
    /\ MemFrame

\* ConversationCleanerService.clean_and_store_conversation with the reply of
\* the cleaning LLM call and the outcome of the commit as inputs.
CleanAndStoreConversation(user_id, system_instruction_id, conversation_round, reply, commit_ok) ==
    /\ IF CleanerPersists(reply) /\ commit_ok
       THEN /\ nextId <= MaxRows
            /\ rows' = (nextId :> CleanedMemory(user_id, system_instruction_id,
                                                reply, conversation_round, now)) @@ rows
            /\ nextId' = nextId + 1
       ELSE UNCHANGED <<rows, nextId>>
    /\ lastOp' = [op |-> "clean", kind |-> reply.kind, should_remember |-> reply.should_remember]
    /\ UNCHANGED <<now, ticks>>
    /\ MemFrame

CleanerRun ==
    \E user_id \in Users, system_instruction_id \in SystemInstructionIds,
       reply \in LLMReplies, commit_ok \in BOOLEAN :
      /\ CleanAndStoreConversation(user_id, system_instruction_id,
                                   CONVERSATION_BATCH_SIZE, reply, commit_ok)
      /\ UNCHANGED tasks

\* MemoryAccessUpdateService.update_memory_access: one UPDATE ... WHERE id IN
\* (memory_ids); an empty list returns before any statement.
UpdateMemoryAccess(memory_ids, ok) ==
    LET hit == memory_ids \cap Ids
    IN /\ \A id \in hit : rows[id].access_count < MaxAccess
       /\ IF memory_ids # {} /\ ok
          THEN rows' = [id \in Ids |->
                          IF id \in hit
                          THEN [rows[id] EXCEPT !.last_accessed = now,
                                                !.access_count = @ + 1]
                          ELSE rows[id]]
          ELSE UNCHANGED rows
       /\ lastOp' = [op |-> "bump"]
       /\ UNCHANGED <<nextId, now, ticks, tasks>>
       /\ MemFrame

BumpAccess == \E memory_ids \in SUBSET (1..MaxRows), ok \in BOOLEAN : UpdateMemoryAccess(memory_ids, ok)

\* CleanupService.daily_memory_cleanup_async, the job of the scheduler
DailyMemoryCleanupAsync(ok) ==
    LET ids_to_soft_delete == {id \in GCCandidates : ShouldSoftDelete(id, now)}
    IN /\ IF ok
          THEN rows' = SoftDeleteAll(ids_to_soft_delete, now)
          ELSE UNCHANGED rows
       /\ lastOp' = [op |-> "daily_gc", ok |-> ok]
       /\ UNCHANGED <<nextId, now, ticks, tasks>>
       /\ MemFrame

DailyGC == \E ok \in BOOLEAN : DailyMemoryCleanupAsync(ok)

\* scripts/daily_memory_cleanup.py: DELETE FROM conversation_memories
DailyMemoryCleanupScript(ok) ==
    LET ids_to_delete == {id \in GCCandidates : ScriptShouldDelete(id, now)}
    IN /\ IF ok
          THEN rows' = HardDeleteAll(ids_to_delete)
          ELSE UNCHANGED rows
       /\ lastOp' = [op |-> "gc_script", ok |-> ok]
       /\ UNCHANGED <<nextId, now, ticks, tasks>>
       /\ MemFrame

DailyGCScript == \E ok \in BOOLEAN : DailyMemoryCleanupScript(ok)

\* DELETE /memory/{memory_id}
DeleteMemory(memory_id, user_id) ==
    /\ IF memory_id \in Ids /\ rows[memory_id].user_id = user_id
       THEN /\ rows' = [rows EXCEPT ![memory_id] = SoftDeleted(@, now)]
            /\ lastOp' = [op |-> "delete", status |-> 200,
                          memory_id |-> memory_id, user_id |-> user_id]
       ELSE /\ UNCHANGED rows
            /\ lastOp' = [op |-> "delete", status |-> 404,
                          memory_id |-> memory_id, user_id |-> user_id]
    /\ UNCHANGED <<nextId, now, ticks, tasks>>
    /\ MemFrame

DeleteRequest == \E memory_id \in 1..MaxRows, user_id \in Users : DeleteMemory(memory_id, user_id)

\* POST /memory/clear-old
ClearOldMemories(user_id, system_instruction_id, months) ==
    LET memories == OlderThan(user_id, system_instruction_id, months, now)
    IN /\ rows' = SoftDeleteAll(memories, now)
       /\ lastOp' = [op |-> "clear_old", user_id |-> user_id]
       /\ UNCHANGED <<nextId, now, ticks, tasks>>
       /\ MemFrame

ClearOldRequest ==
    \E user_id \in Users, system_instruction_id \in SystemInstructionIds \cup {NullInt},
       months \in {1, RollingMonths, 12} :
      ClearOldMemories(user_id, system_instruction_id, months)

\* ConversationCleanerService.soft_delete_old_memories(months=3), the
\* rolling cleanup of soft_delete_old_memories_in_background
SoftDeleteOldMemories(user_id, system_instruction_id) ==
    LET memories_to_delete == OlderThan(user_id, system_instruction_id, RollingMonths, now)
    IN /\ rows' = SoftDeleteAll(memories_to_delete, now)
       /\ lastOp' = [op |-> "rolling", user_id |-> user_id]
       /\ UNCHANGED <<nextId, now, ticks, tasks>>
       /\ MemFrame

RollingCleanup ==
    \E user_id \in Users, system_instruction_id \in SystemInstructionIds :
      SoftDeleteOldMemories(user_id, system_instruction_id)

\* The state after start-up with one of `stores` as the memory table.
InitWith(stores) ==
    /\ rows \in stores
    /\ nextId = Cardinality(DOMAIN rows) + 1
    /\ now = Epoch0
    /\ ticks = 0
    /\ tasks = {}
    /\ chat = [pc |-> "idle"]
    /\ lastOp = [op |-> "none"]
    /\ emo = <<>>
    /\ instructions = SeededInstructions
    /\ prompts = <<>>
    /\ nextRec = [instructions |-> Cardinality(DOMAIN SeededInstructions) + 1, prompts |-> 1]
    /\ sess = <<>>
    /\ services = <<>>
    /\ constructions = [attempts |-> 0, failed |-> FALSE]
    /\ app = "stopped"
    /\ scheduler = [running |-> FALSE, jobs |-> {}]
    /\ emoSess = <<>>
    /\ conv = [user_id \in Users |-> 0]
    /\ gcRun = [pc |-> "idle"]

Init == InitWith(SeedStores)

Next ==
    \/ Tick
    \/ CleanerRun
    \/ BumpAccess
    \/ DailyGC
    \/ DailyGCScript
    \/ DeleteRequest
    \/ ClearOldRequest
    \/ RollingCleanup

Spec == Init /\ [][Next]_vars

(***************************************************************************)
(* The chat orchestrator                                                   *)
(***************************************************************************)
\* The AsyncSession a request works on (ChatService.db, handed in by
\* get_db) and the one background_cleaning opens for itself.
RequestSession == "self.db"

BackgroundSessionShared == "self.db"

BackgroundSession == "bg_db"

\* chat(), step 1: the cleaner is wanted from CONVERSATION_BATCH_SIZE
\* messages on.
ShouldClean(total_messages) == total_messages >= CONVERSATION_BATCH_SIZE

ConversationRoundRaw(total_messages) == total_messages

\* chat(), step 3: conversation_round stays 0 unless should_clean.
ConversationRound(total_messages) ==
    IF ShouldClean(total_messages)
    THEN (total_messages \div CONVERSATION_BATCH_SIZE) * CONVERSATION_BATCH_SIZE
    ELSE 0

RetrieveRelevantMemoriesRetry(candidates, query, outcomes) ==
    IF \E i \in DOMAIN outcomes : outcomes[i]
    THEN GetRelevantMemories(candidates, query, RelevantLimit)
    ELSE <<>>

\* _retrieve_relevant_memories: one call of get_relevant_memories, whose
\* except branch turns any failure into the empty list (and the wrapper's
\* own except into the empty text).  outcomes[i] tells whether an i-th
\* attempt would succeed; only the first is ever made.
RetrieveRelevantMemories(candidates, query, outcomes) ==
    IF outcomes[1]
    THEN GetRelevantMemories(candidates, query, RelevantLimit)
    ELSE <<>>

\* ChatService.chat up to the await of the LLM call: the id resolution, the
\* two memory reads, and asyncio.create_task(background_cleaning()).  The
\* turn keeps the ids it put in the prompt, with the access_count each had.
Chat(user_id, request_id, total_messages, query, outcomes) ==
    /\ chat.pc = "idle"
    /\ Cardinality(tasks) < MaxTasks
    /\ \E system_instruction_id \in ResolvedIds(request_id) :
       \E recent_memories \in RecentOrders(user_id, system_instruction_id, RecentLimit) :
       \E candidates \in CandidateOrders(user_id, system_instruction_id) :
         LET memories == RetrieveRelevantMemories(candidates, query, outcomes)
             retrieved == SeqToSet(recent_memories) \cup SeqToSet(memories)
         IN /\ chat' = [pc |-> "llm",
                        db |-> RequestSession,
                        user_id |-> user_id,
                        system_instruction_id |-> system_instruction_id,
                        retrieved |-> [id \in retrieved |-> rows[id].access_count],
                        memory_context |-> SeqToSet(memories),
                        retrieval_failed |-> ~outcomes[1],
                        t_request |-> now]
            /\ tasks' = tasks \cup {[db |-> BackgroundSession,
                                     user_id |-> user_id,
                                     system_instruction_id |-> system_instruction_id,
                                     total_messages |-> total_messages,
                                     should_clean |-> ShouldClean(total_messages),
                                     conversation_round |-> ConversationRound(total_messages)]}
    /\ lastOp' = [op |-> "chat"]
    /\ UNCHANGED <<rows, nextId, now, ticks, emo, instructions, prompts, nextRec, sess>>
    /\ AuxFrame

\* The lengths of request.messages tried: those at and next to a multiple of
\* the batch size.
MessageCounts ==
    {n \in 0..MaxMessages :
        n % CONVERSATION_BATCH_SIZE \in {0, 1, CONVERSATION_BATCH_SIZE - 1}}

\* What a first and a second call of get_relevant_memories would do.
RetrievalOutcomes == {<<TRUE, TRUE>>, <<FALSE, TRUE>>}

ChatRequest ==
    \E user_id \in Users, request_id \in SystemInstructionIds \cup {NullInt},
       total_messages \in MessageCounts, query \in Queries,
       outcomes \in RetrievalOutcomes :
      /\ Chat(user_id, request_id, total_messages,
              IF total_messages = 0 THEN "" ELSE query, outcomes)
      /\ UNCHANGED conv

\* litellm_service.chat_completion returns or raises; chat() then builds its
\* response or lets the error through.  Neither path writes to the store.
ChatCompletion(llm_ok) ==
    /\ chat.pc = "llm"
    /\ chat' = [pc |-> "idle"]
    /\ lastOp' = [op |-> "chat_done", llm_ok |-> llm_ok,
                  retrieved |-> chat.retrieved, t_request |-> chat.t_request]
    /\ UNCHANGED <<rows, nextId, now, ticks, tasks, emo, instructions, prompts, nextRec, sess, conv>>
    /\ AuxFrame

ChatReturn == \E llm_ok \in BOOLEAN : ChatCompletion(llm_ok)

\* background_cleaning(): the task created by chat(), run by the event loop
\* at any later point; it calls the cleaner only when should_clean.
BackgroundCleaning(task, reply, commit_ok) ==
    /\ task \in tasks
    /\ tasks' = tasks \ {task}
    /\ IF task.should_clean
       THEN CleanAndStoreConversation(task.user_id, task.system_instruction_id,
                                      task.conversation_round, reply, commit_ok)
       ELSE /\ lastOp' = [op |-> "background_skip"]
            /\ UNCHANGED <<rows, nextId, now, ticks>>
            /\ MemFrame

BackgroundTask ==
    \E task \in tasks, reply \in LLMReplies, commit_ok \in BOOLEAN :
      BackgroundCleaning(task, reply, commit_ok)

ChatNext ==
    \/ Tick
    \/ ChatRequest
    \/ ChatReturn
    \/ BackgroundTask

ChatSpec == Init /\ [][ChatNext]_vars

\* C10: when a chat turn has returned from its LLM call, every memory id x
\* the turn put in the prompt has access_count one more than when it was
\* retrieved, and last_accessed at or after the request time.
C10_AccessFeedback ==
    (lastOp.op = "chat_done" /\ lastOp.llm_ok)
    => \A x \in DOMAIN lastOp.retrieved :
          /\ rows[x].access_count = lastOp.retrieved[x] + 1
          /\ rows[x].last_accessed >= lastOp.t_request

\* C11: a chat turn never waits for its detached background task and is
\* never failed by it: whatever the cleaner has done so far (LLM error, parse
\* error, storage error) or not yet done, a turn that awaits its LLM call can
\* take the reply and return, and every background task works on a database
\* session distinct from the request's.
C11_ChatIndependentOfTask ==
    /\ \A task \in tasks : task.db # RequestSession
    /\ chat.pc = "llm" => /\ ENABLED ChatCompletion(TRUE)
                          /\ \A task \in tasks : task.db # chat.db

C11_Witness ==
    /\ chat.pc = "llm"
    /\ lastOp.op = "clean"
    /\ lastOp.kind = "error"

\* C12: when the detached task of a chat turn finishes, the rolling
\* three-month soft-delete has run for the turn's (user_id,
\* system_instruction_id): every row of that scope older than the cut-off
\* is soft-deleted, whether or not the cleaner ran.
C12_RollingSoftDeleteRuns ==
    [][\A task \in tasks \ tasks' :
         \A id \in OlderThan(task.user_id, task.system_instruction_id, RollingMonths, now) :
            rows'[id].is_deleted]_vars

C14_RetrievalDeterministic ==
    \A user_id \in Users, system_instruction_id \in SystemInstructionIds, query \in Queries :
      \A c1, c2 \in CandidateOrders(user_id, system_instruction_id) :
        LET r1 == GetRelevantMemories(c1, query, RelevantLimit)
            r2 == GetRelevantMemories(c2, query, RelevantLimit)
        IN /\ r1 = r2
           /\ \A i, j \in DOMAIN r1 :
                (i < j /\ CombinedScore(r1[i], query) = CombinedScore(r1[j], query))
                => ~ByImportanceThenCreatedDesc(r1[j], r1[i])

\* The chat orchestrator over tables whose two rows differ in age only.
RankInit == InitWith(RankStores)

RankSpec == RankInit /\ [][ChatNext]_vars

\* The pairs (a, b) of live rows identical except for their age, a the
\* younger.
AgePairs ==
    {ab \in Ids \X Ids :
        /\ ~rows[ab[1]].is_deleted
        /\ ~rows[ab[2]].is_deleted
        /\ rows[ab[1]].created_at_timestamp # NullInt
        /\ rows[ab[2]].created_at_timestamp # NullInt
        /\ rows[ab[1]].created_at_timestamp > rows[ab[2]].created_at_timestamp
        /\ [rows[ab[1]] EXCEPT !.created_at_timestamp = 0, !.created_at = 0, !.last_accessed = 0]
             = [rows[ab[2]] EXCEPT !.created_at_timestamp = 0, !.created_at = 0, !.last_accessed = 0]}

\* C25: of two event (or desire) rows identical except for
\* created_at_timestamp the younger has the strictly greater final score and
\* comes strictly before the older in every retrieval result; for fact and
\* preference rows the decay factor is exactly 1 (denominator 24 of 24).
C25_YoungerRanksAbove ==
    \A ab \in AgePairs :
      IF rows[ab[1]].memory_category \in {"event", "desire"}
      THEN /\ FinalScoreBase(ab[1]) * FinalScoreDecayDen(ab[2], now)
                > FinalScoreBase(ab[2]) * FinalScoreDecayDen(ab[1], now)
           /\ \A query \in Queries :
              \A c \in CandidateOrders(rows[ab[1]].user_id, rows[ab[1]].system_instruction_id) :
                LET r == GetRelevantMemories(c, query, RelevantLimit)
                IN \E i, j \in DOMAIN r : i < j /\ r[i] = ab[1] /\ r[j] = ab[2]
      ELSE /\ FinalScoreDecayDen(ab[1], now) = 24
           /\ FinalScoreDecayDen(ab[2], now) = 24

(***************************************************************************)
(* The emotion engine                                                      *)
(***************************************************************************)
\* valence and arousal in tenths.  NaN stands for the float nan, which
\* json.loads accepts and float() keeps; every comparison with it is false.
NaN == 9999
min_val == -10
max_val == 10
max_retries == 3

EmotionPairs == {<<1, 1>>, <<1, 2>>}
Deltas == {-20, 4, NaN}

FloatAdd(a, b) == IF a = NaN \/ b = NaN THEN NaN ELSE a + b

FloatLess(a, b) == a # NaN /\ b # NaN /\ a < b

\* Python's min(a, b) and max(a, b): the first argument wins unless the
\* second compares strictly below (above) it.
PyMin(a, b) == IF FloatLess(b, a) THEN b ELSE a

PyMax(a, b) == IF FloatLess(a, b) THEN b ELSE a

\* A clamp that returns its argument.
ClampNone(value) == value

\* EmotionalMath.clamp
Clamp(value) == PyMax(min_val, PyMin(max_val, value))

\* EmotionalMath.update
Update(valence, arousal, delta_v, delta_a) ==
    [valence |-> Clamp(FloatAdd(valence, delta_v)),
     arousal |-> Clamp(FloatAdd(arousal, delta_a))]

\* EmotionalMath.EMOTION_LABELS, thresholds in tenths; the model names a
\* label by its key (the code returns the entry's "label" text).
EMOTION_LABELS ==
    [joy        |-> [min_v |-> 3,  min_a |-> 3],
     anger      |-> [max_v |-> -3, min_a |-> 3],
     sadness    |-> [max_v |-> -3, max_a |-> -3],
     relaxation |-> [min_v |-> 3,  max_a |-> -3],
     excited    |-> [min_v |-> 3,  min_a |-> 5],
     anxious    |-> [max_v |-> -3, min_a |-> 5],
     bored      |-> [max_v |-> -3, max_a |-> -5],
     calm       |-> [min_v |-> 3,  max_a |-> -5]]

\* get_state_label: the order the labels are tried in
emotion_order ==
    <<"excited", "anxious", "bored", "calm", "joy", "anger", "sadness", "relaxation">>

\* get_state_label: none of the four `continue` tests of the loop body fires
RuleHolds(rule, valence, arousal) ==
    /\ ~("min_v" \in DOMAIN rule /\ FloatLess(valence, rule.min_v))
    /\ ~("max_v" \in DOMAIN rule /\ FloatLess(rule.max_v, valence))
    /\ ~("min_a" \in DOMAIN rule /\ FloatLess(arousal, rule.min_a))
    /\ ~("max_a" \in DOMAIN rule /\ FloatLess(rule.max_a, arousal))

\* A labelling by the signs of valence and arousal alone.
GetStateLabelSign(valence, arousal) ==
    IF valence > 0 /\ arousal > 0 THEN "joy" ELSE "neutral"

\* EmotionalMath.get_state_label: the first label in emotion_order whose
\* rule holds, "neutral" when none does.
GetStateLabel(valence, arousal) ==
    LET hits == {i \in DOMAIN emotion_order :
                   RuleHolds(EMOTION_LABELS[emotion_order[i]], valence, arousal)}
    IN IF hits = {} THEN "neutral"
       ELSE emotion_order[CHOOSE i \in hits : \A j \in hits : i <= j]

\* A judge that keeps calling until an attempt succeeds.
JudgeAnalyzeUnbounded(failures, result) ==
    [ok |-> TRUE, calls |-> failures + 1, delta |-> result]

\* JudgeService.analyze: `failures` attempts fail (transport error,
\* unparseable JSON, missing field) before one succeeds with `result`; the
\* loop returns at the first success, and after max_retries failed attempts
\* the answer is None.  calls counts the acompletion calls made.
JudgeAnalyze(failures, result) ==
    IF failures >= max_retries
    THEN [ok |-> FALSE, calls |-> max_retries]
    ELSE [ok |-> TRUE, calls |-> failures + 1, delta |-> result]

\* _get_or_create_emotion_state: the row of the pair, or a new (0, 0) row
GetOrCreateEmotionState(pair) ==
    IF pair \in DOMAIN emo THEN emo[pair] ELSE [valence |-> 0, arousal |-> 0]

EmoFrame ==
    UNCHANGED <<rows, nextId, now, ticks, tasks, chat, instructions, prompts, nextRec, sess, conv>>
    /\ AuxFrame

\* EmotionEngineService.process_conversation; a failed commit rolls back,
\* the row a first call created included, and the error is raised.  For a
\* pair met for the first time lastOp keeps the state the call started from;
\* delta and label are those of the summary the call returns.
ProcessConversation(pair, failures, result, commit_ok) ==
    LET emotion_state == GetOrCreateEmotionState(pair)
        analysis_result == JudgeAnalyze(failures, result)
        delta_v == IF analysis_result.ok THEN analysis_result.delta[1] ELSE 0
        delta_a == IF analysis_result.ok THEN analysis_result.delta[2] ELSE 0
        new == Update(emotion_state.valence, emotion_state.arousal, delta_v, delta_a)
    IN /\ emo' = IF commit_ok
                 THEN [p \in DOMAIN emo \cup {pair} |-> IF p = pair THEN new ELSE emo[p]]
                 ELSE emo
       /\ lastOp' = [op |-> "process", pair |-> pair, ok |-> commit_ok,
                     created |-> pair \notin DOMAIN emo,
                     previous_state |-> IF pair \in DOMAIN emo THEN <<>>
                                        ELSE <<emotion_state.valence, emotion_state.arousal>>,
                     failures |-> failures,
                     judge_ok |-> analysis_result.ok,
                     judge_calls |-> analysis_result.calls,
                     raised |-> ~commit_ok,
                     delta |-> <<delta_v, delta_a>>,
                     label |-> GetStateLabel(new.valence, new.arousal)]
       /\ EmoFrame

EmotionTurn ==
    \E pair \in EmotionPairs, failures \in {0, max_retries},
       result \in Deltas \X Deltas, commit_ok \in BOOLEAN :
      ProcessConversation(pair, failures, result, commit_ok)

\* EmotionEngineService.reset_emotion_state
ResetEmotionState(pair, commit_ok) ==
    /\ emo' = IF commit_ok
              THEN [p \in DOMAIN emo \cup {pair} |->
                      IF p = pair THEN [valence |-> 0, arousal |-> 0] ELSE emo[p]]
              ELSE emo
    /\ lastOp' = [op |-> "reset", pair |-> pair, ok |-> commit_ok]
    /\ EmoFrame

EmotionReset == \E pair \in EmotionPairs, commit_ok \in BOOLEAN : ResetEmotionState(pair, commit_ok)

EmotionNext ==
    \/ EmotionTurn
    \/ EmotionReset

\* The emotion engine reads and writes character_emotion_states only.
EmotionInit == Init /\ rows = <<>>

EmotionSpec == EmotionInit /\ [][EmotionNext]_vars

\* C7: for every (user_id, char_id) the persisted valence and arousal are
\* within [-1, 1] after any sequence of process_conversation and
\* reset_emotion_state calls, and a call that meets a new pair starts it
\* from (0, 0).
C7_EmotionInRange ==
    /\ \A p \in DOMAIN emo :
          /\ emo[p].valence \in -10..10
          /\ emo[p].arousal \in -10..10
    /\ (lastOp.op = "process" /\ lastOp.created) => lastOp.previous_state = <<0, 0>>
    /\ (lastOp.op = "reset" /\ lastOp.ok) => emo[lastOp.pair] = [valence |-> 0, arousal |-> 0]

\* A pair whose valence was clamped at 1.0 and whose arousal at -1.0, next
\* to a pair a committed first call has just created.
C7_Witness ==
    /\ lastOp.op = "process"
    /\ lastOp.created
    /\ lastOp.ok
    /\ \E p \in DOMAIN emo : emo[p].valence = 10 /\ emo[p].arousal = -10

\* The emotion engine for one pair with small positive deltas, every
\* number of failed judge attempts tried.
JudgeDeltas == {1, 2, 3}

JudgeTurn ==
    \E failures \in 0..max_retries, result \in JudgeDeltas \X JudgeDeltas,
       commit_ok \in BOOLEAN :
      ProcessConversation(<<1, 1>>, failures, result, commit_ok)

JudgeNext ==
    \/ JudgeTurn
    \/ EmotionReset

JudgeSpec == EmotionInit /\ [][JudgeNext]_vars

\* The state process_conversation starts from for lastOp'.pair.
PreviousState ==
    IF lastOp'.pair \in DOMAIN emo THEN emo[lastOp'.pair]
    ELSE [valence |-> 0, arousal |-> 0]

\* C16: a process_conversation call makes at most 3 judge calls and stops
\* at the first valid reply; when all 3 attempts fail and the commit goes
\* through, the call does not raise, the delta it applies and returns is
\* (0, 0), and the persisted state equals the previous one.
C16_JudgeFailureIsolated ==
    [][lastOp'.op = "process" =>
         /\ lastOp'.judge_calls \in 1..max_retries
         /\ lastOp'.judge_ok => lastOp'.judge_calls = lastOp'.failures + 1
         /\ ~lastOp'.judge_ok => lastOp'.judge_calls = max_retries
         /\ (~lastOp'.judge_ok /\ lastOp'.ok) =>
              /\ ~lastOp'.raised
              /\ lastOp'.delta = <<0, 0>>
              /\ emo'[lastOp'.pair] = PreviousState]_vars

C16_Witness ==
    /\ lastOp.op = "process"
    /\ ~lastOp.judge_ok
    /\ lastOp.ok
    /\ emo[lastOp.pair] # [valence |-> 0, arousal |-> 0]

\* C17 as stated: from state (0, 0) a judge reply of delta_valence +0.2 and
\* delta_arousal +0.1 leaves the state at (0.2, 0.1), reported with the
\* label "joy".
C17_PraiseGivesJoy ==
    [][(/\ lastOp'.op = "process"
        /\ lastOp'.ok
        /\ lastOp'.judge_ok
        /\ lastOp'.delta = <<2, 1>>
        /\ PreviousState = [valence |-> 0, arousal |-> 0])
       => /\ emo'[lastOp'.pair] = [valence |-> 2, arousal |-> 1]
          /\ lastOp'.label = "joy"]_vars

\* C17, amended: from state (0, 0) a judge reply of delta_valence +0.2 and
\* delta_arousal +0.1 leaves the state at (0.2, 0.1), reported with the
\* label "neutral": both values are below the 0.3 threshold of every label.
C17_PraiseStaysNeutral ==
    [][(/\ lastOp'.op = "process"
        /\ lastOp'.ok
        /\ lastOp'.judge_ok
        /\ lastOp'.delta = <<2, 1>>
        /\ PreviousState = [valence |-> 0, arousal |-> 0])
       => /\ emo'[lastOp'.pair] = [valence |-> 2, arousal |-> 1]
          /\ lastOp'.label = "neutral"]_vars

C17_Witness ==
    /\ lastOp.op = "process"
    /\ lastOp.ok
    /\ lastOp.judge_ok
    /\ lastOp.delta = <<2, 1>>
    /\ emo[lastOp.pair] = [valence |-> 2, arousal |-> 1]

(***************************************************************************)
(* The default flag of SystemInstruction and Prompt records                *)
(* (SystemInstructionService and PromptService are the same code over two  *)
(* tables; the operators take the table as a function id -> record)        *)
(***************************************************************************)
\* The bodies of the create and update requests: `set` holds the fields an
\* update request carries (model_dump(exclude_unset=True)).
CreateData == [is_active : BOOLEAN, is_default : BOOLEAN, sort_order : {0}]

\* A field the request does not carry reads as None, which is falsy.
UpdateData ==
    {data \in [set : SUBSET {"is_active", "is_default"}, is_active : BOOLEAN, is_default : BOOLEAN] :
        /\ "is_active" \notin data.set => ~data.is_active
        /\ "is_default" \notin data.set => ~data.is_default}

\* _clear_defaults, its SELECT ... WHERE is_default == True
SelectDefaults(table) == {id \in DOMAIN table : table[id].is_default}

\* _clear_defaults, its loop: is_default = False on the selected records
MarkNotDefault(table, ids) ==
    [id \in DOMAIN table |-> IF id \in ids THEN [table[id] EXCEPT !.is_default = FALSE]
                             ELSE table[id]]

\* A _clear_defaults that clears nothing.
ClearDefaultsNone(table) == table

\* _clear_defaults within one session
ClearDefaults(table) == MarkNotDefault(table, SelectDefaults(table))

\* create(): clear when data.is_default, add, commit
CreateRecord(table, id, data) ==
    (id :> data) @@ (IF data.is_default THEN ClearDefaults(table) ELSE table)

\* update(): `if data.is_default and data.is_default != instruction.is_default`
WantsClear(record, data) ==
    /\ "is_default" \in data.set
    /\ data.is_default
    /\ data.is_default # record.is_default

\* update(): the setattr loop over the fields the request carries
SetAttrs(record, data) ==
    [record EXCEPT !.is_active = IF "is_active" \in data.set THEN data.is_active ELSE @,
                   !.is_default = IF "is_default" \in data.set THEN data.is_default ELSE @]

UpdateRecord(table, id, data) ==
    LET cleared == IF WantsClear(table[id], data) THEN ClearDefaults(table) ELSE table
    IN [cleared EXCEPT ![id] = SetAttrs(cleared[id], data)]

\* delete(): db.delete(instruction)
DeleteRecord(table, id) == [i \in DOMAIN table \ {id} |-> table[i]]

DefaultsFrame == UNCHANGED <<rows, nextId, now, ticks, tasks, chat, emo, sess, conv>> /\ AuxFrame

SystemInstructionCreate(data) ==
    /\ nextRec.instructions <= MaxRecs
    /\ instructions' = CreateRecord(instructions, nextRec.instructions, data)
    /\ nextRec' = [nextRec EXCEPT !.instructions = @ + 1]
    /\ lastOp' = [op |-> "create"]
    /\ UNCHANGED prompts
    /\ DefaultsFrame

SystemInstructionUpdate(instruction_id, data) ==
    /\ instructions' = IF instruction_id \in DOMAIN instructions
                       THEN UpdateRecord(instructions, instruction_id, data)
                       ELSE instructions
    /\ lastOp' = [op |-> "update"]
    /\ UNCHANGED <<prompts, nextRec>>
    /\ DefaultsFrame

SystemInstructionDelete(instruction_id) ==
    /\ instructions' = IF instruction_id \in DOMAIN instructions
                       THEN DeleteRecord(instructions, instruction_id)
                       ELSE instructions
    /\ lastOp' = [op |-> "delete"]
    /\ UNCHANGED <<prompts, nextRec>>
    /\ DefaultsFrame

PromptCreate(data) ==
    /\ nextRec.prompts <= MaxRecs
    /\ prompts' = CreateRecord(prompts, nextRec.prompts, data)
    /\ nextRec' = [nextRec EXCEPT !.prompts = @ + 1]
    /\ lastOp' = [op |-> "create"]
    /\ UNCHANGED instructions
    /\ DefaultsFrame

PromptUpdate(prompt_id, data) ==
    /\ prompts' = IF prompt_id \in DOMAIN prompts
                  THEN UpdateRecord(prompts, prompt_id, data)
                  ELSE prompts
    /\ lastOp' = [op |-> "update"]
    /\ UNCHANGED <<instructions, nextRec>>
    /\ DefaultsFrame

PromptDelete(prompt_id) ==
    /\ prompts' = IF prompt_id \in DOMAIN prompts
                  THEN DeleteRecord(prompts, prompt_id)
                  ELSE prompts
    /\ lastOp' = [op |-> "delete"]
    /\ UNCHANGED <<instructions, nextRec>>
    /\ DefaultsFrame

DefaultsNext ==
    \/ \E data \in CreateData : SystemInstructionCreate(data)
    \/ \E instruction_id \in 1..MaxRecs, data \in UpdateData : SystemInstructionUpdate(instruction_id, data)
    \/ \E instruction_id \in 1..MaxRecs : SystemInstructionDelete(instruction_id)
    \/ \E data \in CreateData : PromptCreate(data)
    \/ \E prompt_id \in 1..MaxRecs, data \in UpdateData : PromptUpdate(prompt_id, data)
    \/ \E prompt_id \in 1..MaxRecs : PromptDelete(prompt_id)

\* The record services read and write their own two tables only.
DefaultsInit == Init /\ rows = <<>>

DefaultsSpec == DefaultsInit /\ [][DefaultsNext]_vars

ActiveDefaults(table) == {id \in DOMAIN table : table[id].is_default /\ table[id].is_active}

\* C8: after any sequence of sequential create, update and delete calls, at
\* most one SystemInstruction, and at most one Prompt, has is_default and
\* is_active both true.
C8_DefaultUnique ==
    /\ Cardinality(ActiveDefaults(instructions)) <= 1
    /\ Cardinality(ActiveDefaults(prompts)) <= 1

\* The default has moved: the seeded default instruction is still there and
\* active but a later record is the default, and likewise among the prompts.
C8_Witness ==
    /\ 1 \in DOMAIN instructions
    /\ instructions[1].is_active
    /\ \E id \in ActiveDefaults(instructions) : id > 2
    /\ \E a \in DOMAIN prompts, b \in ActiveDefaults(prompts) : a < b /\ prompts[a].is_active

\* C26: a chat request without system_instruction_id resolves to the
\* unique SystemInstruction that is both default and active, and to 1 when
\* there is none; a request with an id resolves to that id.
C26_ResolvedDefault ==
    /\ ResolvedIds(NullInt) = IF ActiveDefaults(instructions) = {} THEN {1}
                              ELSE ActiveDefaults(instructions)
    /\ Cardinality(ResolvedIds(NullInt)) = 1
    /\ \A request_id \in 1..MaxRecs : ResolvedIds(request_id) = {request_id}

(***************************************************************************)
(* Default-setting requests in concurrent DB sessions                      *)
(***************************************************************************)
\* Each request runs in its own AsyncSession (autoflush off): what it reads
\* and changes stays in the session until commit() flushes its UPDATEs and
\* INSERT.  sess maps each open session to the request it is running.
Sessions == 1..MaxSessions

TableNames == {"instructions", "prompts"}

TableOf(name) == IF name = "instructions" THEN instructions ELSE prompts

\* The requests of the concurrent runs: those that set is_default = true.
DefaultCreateData == {data \in CreateData : data.is_default /\ data.is_active}

DefaultUpdateData == {data \in UpdateData : data.set = {"is_default"} /\ data.is_default}

PendingCreates(name) == {s \in DOMAIN sess : sess[s].op = "create" /\ sess[s].table = name}

ConcFrame == UNCHANGED <<rows, nextId, now, ticks, tasks, chat, emo, conv>> /\ AuxFrame

\* create() up to its commit: _clear_defaults() has read the defaults and
\* marked them in the session, the new record is added to the session.
CreateBegin(s, name, data) ==
    /\ s \notin DOMAIN sess
    /\ nextRec[name] + Cardinality(PendingCreates(name)) <= MaxRecs
    /\ sess' = (s :> [op |-> "create", table |-> name, data |-> data,
                      cleared |-> IF data.is_default THEN SelectDefaults(TableOf(name)) ELSE {}])
               @@ sess
    /\ lastOp' = [op |-> "begin"]
    /\ UNCHANGED <<instructions, prompts, nextRec>>
    /\ ConcFrame

\* update() up to its commit: the record is loaded, the defaults read and
\* marked when the request asks for it, the fields set on the loaded record.
UpdateBegin(s, name, id, data) ==
    /\ s \notin DOMAIN sess
    /\ id \in DOMAIN TableOf(name)
    /\ sess' = (s :> [op |-> "update", table |-> name, data |-> data, id |-> id,
                      loaded |-> TableOf(name)[id],
                      cleared |-> IF WantsClear(TableOf(name)[id], data)
                                  THEN SelectDefaults(TableOf(name)) ELSE {}])
               @@ sess
    /\ lastOp' = [op |-> "begin"]
    /\ UNCHANGED <<instructions, prompts, nextRec>>
    /\ ConcFrame

\* What commit() writes: is_default = False on the records the session
\* marked, then the INSERT, or the UPDATE of the columns whose value differs
\* from the loaded one.
Committed(table, r, new_id) ==
    LET marked == MarkNotDefault(table, r.cleared)
    IN IF r.op = "create" THEN (new_id :> r.data) @@ marked
       ELSE IF r.id \notin DOMAIN marked THEN marked
       ELSE LET new == SetAttrs(r.loaded, r.data)
            IN [marked EXCEPT ![r.id] =
                  [@ EXCEPT !.is_active = IF new.is_active # r.loaded.is_active
                                          THEN new.is_active ELSE @,
                            !.is_default = IF new.is_default # r.loaded.is_default
                                           THEN new.is_default ELSE @]]

SessionCommit(s) ==
    /\ s \in DOMAIN sess
    /\ LET r == sess[s]
           table == Committed(TableOf(r.table), r, nextRec[r.table])
       IN /\ IF r.table = "instructions"
             THEN instructions' = table /\ UNCHANGED prompts
             ELSE prompts' = table /\ UNCHANGED instructions
          /\ nextRec' = IF r.op = "create" THEN [nextRec EXCEPT ![r.table] = @ + 1] ELSE nextRec
    /\ sess' = [t \in DOMAIN sess \ {s} |-> sess[t]]
    /\ lastOp' = [op |-> "commit"]
    /\ ConcFrame

ConcNext ==
    \/ \E s \in Sessions, name \in TableNames, data \in DefaultCreateData : CreateBegin(s, name, data)
    \/ \E s \in Sessions, name \in TableNames, id \in 1..MaxRecs, data \in DefaultUpdateData :
          UpdateBegin(s, name, id, data)
    \/ \E s \in Sessions : SessionCommit(s)

ConcSpec == DefaultsInit /\ [][ConcNext]_vars

\* C9: when requests that set is_default = true have run concurrently in
\* separate sessions and all have committed, at most one SystemInstruction
\* and at most one Prompt has is_default = true.
C9_ConcurrentDefaultUnique ==
    DOMAIN sess = {}
    => /\ Cardinality(SelectDefaults(instructions)) <= 1
       /\ Cardinality(SelectDefaults(prompts)) <= 1

(***************************************************************************)
(* The emotion scorer                                                      *)
(***************************************************************************)
\* The integer scores a reply may carry; weights are in tenths, so that
\* score / 10.0 is the score itself.
Scores == {-3, 0, 1, 10, 15}

\* analyze_emotion: max_retries = 3
ScorerMaxRetries == 3

\* What one LLM call of analyze_emotion can come back with: the call raises
\* (transport error, timeout); text with no JSON object in it; JSON that is
\* no object; a JSON object, bare or wrapped in other text, with an integer
\* "score" or without one (NullInt).
AttemptOutcomes ==
    { [kind |-> k, score |-> NullInt] : k \in {"error", "unparseable", "nondict"} }
    \cup
    { [kind |-> k, score |-> sc] : k \in {"json", "embedded"}, sc \in Scores \cup {NullInt} }

\* score = result.get("score", 5); normalized_weight = score / 10.0
NormalizedWeight(score) == IF score = NullInt THEN 5 ELSE score

RECURSIVE AnalyzeEmotionRaising(_, _)
\* A scorer that lets the last parse failure through to its caller.
AnalyzeEmotionRaising(outcomes, attempt) ==
    LET o == outcomes[attempt]
    IN CASE o.kind \in {"error", "nondict"} ->
              [raised |-> FALSE, calls |-> attempt, weight |-> 5]
         [] o.kind \in {"json", "embedded"} ->
              [raised |-> FALSE, calls |-> attempt, weight |-> NormalizedWeight(o.score)]
         [] OTHER ->
              IF attempt < ScorerMaxRetries
              THEN AnalyzeEmotionRaising(outcomes, attempt + 1)
              ELSE [raised |-> TRUE, calls |-> attempt, weight |-> 5]

RECURSIVE AnalyzeEmotionFrom(_, _)
\* analyze_emotion from attempt `attempt` on: a raising call and a reply that
\* is JSON but no object end in `except Exception` (0.5 at once); a JSON
\* object, found by json.loads or by the regular expression, gives
\* score / 10.0; a reply with no JSON object is retried, and gives 0.5 on
\* the last attempt.
AnalyzeEmotionFrom(outcomes, attempt) ==
    LET o == outcomes[attempt]
    IN CASE o.kind \in {"error", "nondict"} ->
              [raised |-> FALSE, calls |-> attempt, weight |-> 5]
         [] o.kind \in {"json", "embedded"} ->
              [raised |-> FALSE, calls |-> attempt, weight |-> NormalizedWeight(o.score)]
         [] OTHER ->
              IF attempt < ScorerMaxRetries
              THEN AnalyzeEmotionFrom(outcomes, attempt + 1)
              ELSE [raised |-> FALSE, calls |-> attempt, weight |-> 5]

\* EmotionAnalysisService.analyze_emotion(text); it touches no table.
AnalyzeEmotion(outcomes) ==
    /\ lastOp' = [op |-> "analyze_emotion", outcomes |-> outcomes,
                  result |-> AnalyzeEmotionFrom(outcomes, 1)]
    /\ UNCHANGED <<rows, nextId, now, ticks, tasks, chat, emo, instructions, prompts, nextRec, sess, conv>>
    /\ AuxFrame

ScorerCall == \E outcomes \in [1..ScorerMaxRetries -> AttemptOutcomes] : AnalyzeEmotion(outcomes)

ScorerNext == ScorerCall

ScorerSpec == EmotionInit /\ [][ScorerNext]_vars

C19_WeightInRange ==
    lastOp.op = "analyze_emotion" => lastOp.result.weight \in 1..10

(***************************************************************************)
(* The embedding model                                                     *)
(***************************************************************************)
\* services[i] is the _embedding_model attribute of the i-th
\* ConversationCleanerService object of the process: "None" after __init__,
\* then "model" or "fallback".  constructions counts the
\* SentenceTransformer(...) construction attempts of the process and keeps
\* whether one of them has failed.

\* ConversationCleanerService(db): _retrieve_relevant_memories makes one per
\* chat turn, clean_conversation_in_background one per cleaner task.
NewCleanerService ==
    /\ Len(services) < MaxServices
    /\ services' = Append(services, "None")
    /\ lastOp' = [op |-> "new_service"]
    /\ UNCHANGED constructions
    /\ StoreFrame
    /\ SchedFrame

\* _get_embedding_model: `if self._embedding_model is None`
NeedsConstruction(i) == services[i] = "None"

\* _get_embedding_model, called by _encode_text; construct_ok tells whether
\* the import and SentenceTransformer(model_name) go through.
GetEmbeddingModel(i, construct_ok) ==
    /\ i \in DOMAIN services
    /\ IF NeedsConstruction(i)
       THEN /\ constructions.attempts < MaxConstructions
            /\ services' = [services EXCEPT ![i] = IF construct_ok THEN "model" ELSE "fallback"]
            /\ constructions' = [attempts |-> constructions.attempts + 1,
                                 failed |-> constructions.failed \/ ~construct_ok]
       ELSE UNCHANGED <<services, constructions>>
    /\ lastOp' = [op |-> "get_embedding_model", returned |-> services'[i]]
    /\ StoreFrame
    /\ SchedFrame

EncodeText == \E i \in DOMAIN services, construct_ok \in BOOLEAN : GetEmbeddingModel(i, construct_ok)

EmbedNext ==
    \/ NewCleanerService
    \/ EncodeText

EmbedSpec == EmotionInit /\ [][EmbedNext]_vars

\* C21: the embedding model is constructed at most once per process, and
\* once a construction attempt has failed no later call attempts it again.
C21_ConstructedOnce ==
    [][/\ constructions'.attempts <= 1
       /\ constructions.failed => constructions'.attempts = constructions.attempts]_vars

(***************************************************************************)
(* Application start-up and the scheduler                                  *)
(***************************************************************************)
\* app is "started" once lifespan() has run up to its yield.  scheduler is
\* the AsyncIOScheduler of the module-level scheduler_service: whether it
\* runs, and the ids of its jobs.

\* main.lifespan, the part before yield: init_db() and two log lines.
Lifespan ==
    /\ app = "stopped"
    /\ app' = "started"
    /\ lastOp' = [op |-> "lifespan"]
    /\ UNCHANGED scheduler
    /\ StoreFrame
    /\ EmbedFrame

\* SchedulerService.start: add_job(id='daily_memory_cleanup',
\* replace_existing=True) and scheduler.start().  Nothing in the
\* application calls it.
SchedulerStart ==
    /\ scheduler' = [running |-> TRUE, jobs |-> scheduler.jobs \cup {"daily_memory_cleanup"}]
    /\ lastOp' = [op |-> "scheduler_start"]
    /\ UNCHANGED app
    /\ StoreFrame
    /\ EmbedFrame

\* SchedulerService._daily_cleanup_task, fired by the cron trigger of a
\* running scheduler that has the job.
DailyCleanupTask(ok) ==
    /\ scheduler.running
    /\ "daily_memory_cleanup" \in scheduler.jobs
    /\ DailyMemoryCleanupAsync(ok)

\* What happens without any request: the application starts and time
\* passes.  DailyCleanupTask is no step of it: its guard needs the job, and
\* only SchedulerStart, which is never called, adds it.
SchedNext ==
    \/ Lifespan
    \/ Tick

SchedSpec == Init /\ [][SchedNext]_vars

\* C24: once the application has started, the daily GC job is registered
\* exactly once on a running scheduler.
C24_JobRegisteredOnce ==
    app = "started" => /\ scheduler.running
                       /\ scheduler.jobs = {"daily_memory_cleanup"}

(***************************************************************************)
(* Emotion updates in concurrent DB sessions                               *)
(***************************************************************************)
\* Every call of process_conversation works on the AsyncSession of its own
\* request (core/config.py: PostgreSQL, whose default isolation level is READ
\* COMMITTED).  emoSess[s] is the unit of work of session s: the row it
\* loaded or added, and after its commit the deltas it applied.

EmoSessFrame ==
    /\ UNCHANGED <<rows, nextId, now, ticks, tasks, chat, instructions, prompts, nextRec, sess,
                   conv, gcRun>>
    /\ EmbedFrame
    /\ SchedFrame

\* The deltas the judge answers with in the concurrent runs.
ConcDeltas == {<<4, 0>>, <<4, 4>>}

\* The sessions that have flushed an INSERT for the pair and not committed.
PendingInserts(pair) ==
    {s \in DOMAIN emoSess :
        emoSess[s].pc = "read" /\ emoSess[s].created /\ emoSess[s].pair = pair}

\* _get_or_create_emotion_state, the SELECT: the committed row of the pair
\* is loaded into the session, or none is found.
EmoSelect(s, pair) ==
    /\ s \notin DOMAIN emoSess
    /\ emoSess' = (s :> [pc |-> IF pair \in DOMAIN emo THEN "read" ELSE "flush",
                         pair |-> pair,
                         created |-> FALSE,
                         state |-> GetOrCreateEmotionState(pair),
                         delta |-> <<0, 0>>]) @@ emoSess
    /\ lastOp' = [op |-> "emo_select", session |-> s, pair |-> pair]
    /\ UNCHANGED emo
    /\ EmoSessFrame

\* _get_or_create_emotion_state, db.add() and flush(): the INSERT waits while
\* another transaction holds an uncommitted row of the same (user_id,
\* char_id); uq_user_char_emotion rejects it when such a row is committed,
\* and process_conversation rolls back and raises.
EmoFlush(s) ==
    /\ s \in DOMAIN emoSess
    /\ emoSess[s].pc = "flush"
    /\ PendingInserts(emoSess[s].pair) = {}
    /\ IF emoSess[s].pair \in DOMAIN emo
       THEN /\ emoSess' = [t \in DOMAIN emoSess \ {s} |-> emoSess[t]]
            /\ lastOp' = [op |-> "emo_flush", session |-> s, pair |-> emoSess[s].pair,
                          raised |-> TRUE]
       ELSE /\ emoSess' = [emoSess EXCEPT ![s].pc = "read", ![s].created = TRUE]
            /\ lastOp' = [op |-> "emo_flush", session |-> s, pair |-> emoSess[s].pair,
                          raised |-> FALSE]
    /\ UNCHANGED emo
    /\ EmoSessFrame

\* The commit of process_conversation as the unit of work flushes it: the
\* INSERT of a row the session added, else an UPDATE ... WHERE id = :id
\* that sets the columns whose value differs from the one loaded.
EmoWriteBack(pair, loaded, new) ==
    IF pair \in DOMAIN emo
    THEN [emo EXCEPT ![pair] =
            [valence |-> IF new.valence # loaded.valence THEN new.valence ELSE @.valence,
             arousal |-> IF new.arousal # loaded.arousal THEN new.arousal ELSE @.arousal]]
    ELSE (pair :> new) @@ emo

\* process_conversation from the judge call to the commit, on the row the
\* session holds; a failed commit rolls back and the error is raised.
EmoCommit(s, failures, result, commit_ok) ==
    /\ s \in DOMAIN emoSess
    /\ emoSess[s].pc = "read"
    /\ LET tx == emoSess[s]
           analysis_result == JudgeAnalyze(failures, result)
           delta_v == IF analysis_result.ok THEN analysis_result.delta[1] ELSE 0
           delta_a == IF analysis_result.ok THEN analysis_result.delta[2] ELSE 0
           new == Update(tx.state.valence, tx.state.arousal, delta_v, delta_a)
       IN IF commit_ok
          THEN /\ emo' = EmoWriteBack(tx.pair, tx.state, new)
               /\ emoSess' = [emoSess EXCEPT ![s].pc = "committed",
                                             ![s].delta = <<delta_v, delta_a>>]
               /\ lastOp' = [op |-> "emo_commit", session |-> s, pair |-> tx.pair,
                             raised |-> FALSE]
          ELSE /\ UNCHANGED emo
               /\ emoSess' = [t \in DOMAIN emoSess \ {s} |-> emoSess[t]]
               /\ lastOp' = [op |-> "emo_commit", session |-> s, pair |-> tx.pair,
                             raised |-> TRUE]
    /\ EmoSessFrame

\* process_conversation has returned its summary; the request ends and its
\* session is closed.
EmoClose(s) ==
    /\ s \in DOMAIN emoSess
    /\ emoSess[s].pc = "committed"
    /\ emoSess' = [t \in DOMAIN emoSess \ {s} |-> emoSess[t]]
    /\ lastOp' = [op |-> "emo_close", session |-> s, pair |-> emoSess[s].pair]
    /\ UNCHANGED emo
    /\ EmoSessFrame

EmoConcNext ==
    \/ \E s \in Sessions, pair \in EmotionPairs : EmoSelect(s, pair)
    \/ \E s \in Sessions : EmoFlush(s)
    \/ \E s \in Sessions, failures \in {0, max_retries}, result \in ConcDeltas,
          commit_ok \in BOOLEAN : EmoCommit(s, failures, result, commit_ok)
    \/ \E s \in Sessions : EmoClose(s)

EmoConcSpec == EmotionInit /\ [][EmoConcNext]_vars

\* C28: no emotion update is lost under concurrency: when two calls of
\* process_conversation for one (user_id, char_id), in separate sessions,
\* have loaded the same state of an existing row and both have committed,
\* with deltas d1 and d2, the persisted state is the one that the two
\* clamped updates give when applied one after the other, in one of the
\* two orders.
C28_NoLostUpdate ==
    \A s, t \in DOMAIN emoSess :
       (/\ s # t
        /\ emoSess[s].pc = "committed" /\ emoSess[t].pc = "committed"
        /\ emoSess[s].pair = emoSess[t].pair
        /\ ~emoSess[s].created /\ ~emoSess[t].created
        /\ emoSess[s].state = emoSess[t].state
        /\ lastOp.op = "emo_commit" /\ lastOp.session = s)
       => LET base == emoSess[s].state
              d1 == emoSess[t].delta
              d2 == emoSess[s].delta
              first12 == Update(base.valence, base.arousal, d1[1], d1[2])
              first21 == Update(base.valence, base.arousal, d2[1], d2[2])
          IN emo[emoSess[s].pair]
               \in {Update(first12.valence, first12.arousal, d2[1], d2[2]),
                    Update(first21.valence, first21.arousal, d1[1], d1[2])}

(***************************************************************************)
(* A conversation that grows turn by turn                                  *)
(***************************************************************************)
\* The client keeps the conversation and sends it whole with every request:
\* conv[user_id] is the length of request.messages of the user's last
\* request, and the next request carries what was appended since (the new
\* user message, with or without the assistant reply before it).
ConversationTurn(user_id, request_id, appended, query, outcomes) ==
    LET total_messages == conv[user_id] + appended
    IN /\ total_messages <= MaxMessages
       /\ Chat(user_id, request_id, total_messages, query, outcomes)
       /\ conv' = [conv EXCEPT ![user_id] = total_messages]

ConversationRequest ==
    \E user_id \in Users, appended \in 1..2, query \in Queries,
       outcomes \in RetrievalOutcomes :
      ConversationTurn(user_id, 1, appended, query, outcomes)

GrowNext ==
    \/ ConversationRequest
    \/ ChatReturn
    \/ BackgroundTask

\* The conversations start with an empty memory table.
GrowInit == Init /\ rows = <<>>

GrowSpec == GrowInit /\ [][GrowNext]_vars

\* C29: for a conversation that grows by appending messages the cleaner is
\* launched at most once per conversation_round value, so the store holds
\* at most one memory row per (user_id, system_instruction_id,
\* conversation_round).
C29_OneRowPerRound ==
    \A a, b \in Ids :
       (/\ rows[a].user_id = rows[b].user_id
        /\ rows[a].system_instruction_id = rows[b].system_instruction_id
        /\ rows[a].conversation_round = rows[b].conversation_round)
       => a = b

(***************************************************************************)
(* The daily job interleaved with access updates                           *)
(***************************************************************************)
\* daily_memory_cleanup_async awaits the database twice: for the SELECT of
\* its candidates and for the batch UPDATE.  gcRun holds what the run keeps
\* between the two: the rows it loaded and the ids it decided on.

GcFrame ==
    /\ UNCHANGED <<nextId, now, ticks, tasks, chat, emo, instructions, prompts, nextRec, sess,
                   conv, emoSess>>
    /\ EmbedFrame
    /\ SchedFrame

\* Steps 1 and 2 of daily_memory_cleanup_async: the candidates are loaded
\* and the two rules are applied to the loaded rows; with no candidate the
\* run returns 0.
GcSelect ==
    /\ gcRun.pc = "idle"
    /\ LET memories == GCCandidates
           ids_to_soft_delete == {id \in memories : ShouldSoftDelete(id, now)}
       IN /\ gcRun' = IF memories = {} THEN gcRun
                      ELSE [pc |-> "selected",
                            memories |-> [id \in memories |-> rows[id]],
                            ids |-> ids_to_soft_delete]
          /\ lastOp' = [op |-> "daily_gc_select", found |-> Cardinality(memories)]
    /\ UNCHANGED rows
    /\ GcFrame

\* Step 3 of daily_memory_cleanup_async: UPDATE ... WHERE id IN
\* (ids_to_soft_delete) and the commit, skipped for an empty list; a failure
\* rolls back.
GcUpdate(ok) ==
    /\ gcRun.pc = "selected"
    /\ rows' = IF gcRun.ids # {} /\ ok
               THEN SoftDeleteAll(gcRun.ids, now)
               ELSE rows
    /\ gcRun' = [pc |-> "idle"]
    /\ lastOp' = [op |-> "daily_gc_update", ok |-> ok]
    /\ GcFrame

GcNext ==
    \/ Tick
    \/ BumpAccess
    \/ GcSelect
    \/ \E ok \in BOOLEAN : GcUpdate(ok)

GcSpec == Init /\ [][GcNext]_vars

\* C30: the daily job never soft-deletes a record that was accessed between
\* its read of the candidates and its batch update: a row whose access
\* statistics have changed since the run loaded it is not marked is_deleted
\* by that run.
C30_GcSparesAccessed ==
    [][(gcRun.pc = "selected" /\ gcRun'.pc = "idle")
       => \A x \in gcRun.ids \cap Ids :
             (\/ rows[x].access_count # gcRun.memories[x].access_count
              \/ rows[x].last_accessed # gcRun.memories[x].last_accessed)
             => ~rows'[x].is_deleted]_vars

(***************************************************************************)
(* Properties of the memory store                                          *)
(***************************************************************************)

\* C1: a run of the cleaner whose LLM call failed, whose reply could not be
\* parsed as JSON, or whose reply says should_remember = false inserts no
\* row and leaves the stored rows as they were.
C1_NoPersistOnFalse ==
    [][ ( /\ lastOp'.op = "clean"
          /\ \/ lastOp'.kind \in {"error", "unparseable"}
             \/ lastOp'.should_remember = "false" )
        => rows' = rows ]_vars

C1_Witness ==
    /\ lastOp.op = "clean"
    /\ lastOp.kind = "json"
    /\ lastOp.should_remember = "false"
    /\ Ids # {}

\* Every list a read path can return in the current state.
ReadResults ==
    UNION { UNION { { GetRelevantMemories(c, q, RelevantLimit) : q \in Queries }
                    \cup { RerankMemories(c, now, RelevantLimit) } :
                      c \in CandidateOrders(u, sid) }
            \cup RecentOrders(u, sid, RecentLimit)
            \cup ListOrders(u, sid)
            \cup ListOrders(u, NullInt) :
              u \in Users, sid \in SystemInstructionIds }

\* C2: in every reachable state of the store, no read path (hybrid
\* retrieval, reranker, recent memories, GET /memory/list) returns a row
\* whose is_deleted is true.
C2_ReadsSkipDeleted ==
    \A r \in ReadResults : \A i \in 1..Len(r) : rows[r[i]].is_deleted = FALSE

C2_Witness ==
    \E d \in Ids, k \in Ids :
        /\ rows[d].is_deleted
        /\ InScope(k, rows[d].user_id, rows[d].system_instruction_id)
        /\ \E r \in ReadResults : k \in SeqToSet(r)

\* C3: update_memory_access leaves every soft-deleted row untouched: its
\* access_count and last_accessed are the same after the call as before.
C3_BumpSkipsDeleted ==
    [][ lastOp'.op = "bump"
        => \A id \in Ids : rows[id].is_deleted =>
              /\ rows'[id].access_count = rows[id].access_count
              /\ rows'[id].last_accessed = rows[id].last_accessed ]_vars

RuleR1(m, t) ==
    /\ m.memory_category \in {"event", "desire"}
    /\ t - m.last_accessed > 7 * seconds_per_day
    /\ m.emotional_weight < 5
    /\ m.importance_score < 5

RuleR2(m, t) ==
    /\ t - m.last_accessed > 30 * seconds_per_day
    /\ m.access_count < 3
    /\ m.importance_score < 5

C6_SoftDeleteOnly ==
    [][ lastOp'.op \in {"daily_gc", "gc_script", "delete", "clear_old", "rolling"}
        => \A id \in Ids :
              /\ id \in DOMAIN rows'
              /\ [rows'[id] EXCEPT !.is_deleted = FALSE, !.deleted_at = NullInt]
                   = [rows[id] EXCEPT !.is_deleted = FALSE, !.deleted_at = NullInt] ]_vars

\* C20: every row the cleaner inserts has its lifecycle fields populated:
\* memory_category one of fact, preference, event, desire, emotional_weight
\* set, semantic_importance = importance_score / 10 (both in tenths here),
\* created_at_timestamp set, last_accessed = created_at_timestamp,
\* access_count 1, is_deleted false and original_content null.
C20_LifecyclePopulated ==
    [][\A id \in (DOMAIN rows') \ (DOMAIN rows) :
         LET m == rows'[id]
         IN /\ m.memory_category \in {"fact", "preference", "event", "desire"}
            /\ m.emotional_weight # NullInt
            /\ m.semantic_importance = m.importance_score
            /\ m.created_at_timestamp # NullInt
            /\ m.last_accessed = m.created_at_timestamp
            /\ m.access_count = 1
            /\ m.is_deleted = FALSE
            /\ m.original_content = "null"]_vars

\* The requests a user has to soft-delete memories, run next to the clock.
DeleteNext ==
    \/ Tick
    \/ DeleteRequest
    \/ ClearOldRequest
    \/ RollingCleanup

DeleteSpec == Init /\ [][DeleteNext]_vars

\* C22: a soft-delete request issued on behalf of user u (DELETE
\* /memory/{id}, POST /memory/clear-old, the rolling three-month cleanup)
\* changes no row of another user, and DELETE on an id u does not own
\* answers 404 and leaves the store unchanged.
C22_DeleteOwnOnly ==
    [][lastOp'.op \in {"delete", "clear_old", "rolling"} =>
         /\ DOMAIN rows' = DOMAIN rows
         /\ \A id \in Ids : rows[id].user_id # lastOp'.user_id => rows'[id] = rows[id]
         /\ (/\ lastOp'.op = "delete"
             /\ ~(/\ lastOp'.memory_id \in Ids
                  /\ rows[lastOp'.memory_id].user_id = lastOp'.user_id))
            => /\ lastOp'.status = 404
               /\ rows' = rows]_vars

\* DELETE by user 2 on a live row of another user, answered 404, while an
\* old row of that other user is still live after the clock has advanced.
C22_Witness ==
    /\ lastOp.op = "delete"
    /\ lastOp.status = 404
    /\ lastOp.memory_id \in Ids
    /\ rows[lastOp.memory_id].user_id # lastOp.user_id
    /\ ~rows[lastOp.memory_id].is_deleted
    /\ ticks > 0

\* C23: DELETE /memory/{id} on an owned row that is already soft-deleted
\* leaves the row as the first call left it, deleted_at included.
C23_SoftDeleteIdempotent ==
    [][(/\ lastOp'.op = "delete"
        /\ lastOp'.status = 200
        /\ rows[lastOp'.memory_id].is_deleted)
       => rows'[lastOp'.memory_id] = rows[lastOp'.memory_id]]_vars

\* C27: no operation un-deletes a memory: a row with is_deleted = true is
\* still there with is_deleted = true after every step (cleaner insert,
\* access bump, daily GC, clear-old, rolling cleanup, DELETE).
C27_NoUndelete ==
    [][\A id \in DOMAIN rows :
         rows[id].is_deleted => (id \in DOMAIN rows' /\ rows'[id].is_deleted)]_vars

\* A soft-deleted row whose access was bumped after its deletion.
C27_Witness ==
    /\ lastOp.op = "bump"
    /\ \E id \in Ids : /\ rows[id].is_deleted
                       /\ rows[id].last_accessed > rows[id].deleted_at

====
